---- MODULE Spec2Model ----
(***************************************************************************)
(* pyrtty: text -> line wrapper -> Baudot encoder -> AFSK tones            *)
(* (src/pyrtty.py).                                                        *)
(* Text is a sequence of one-character strings, a bit string a sequence    *)
(* of the numbers 1 (MARK_CODE) and 0 (SPACE_CODE).  The grave accent      *)
(* (U+0060) cannot be written in a TLA+ string and is written "GRAVE".     *)
(***************************************************************************)
EXTENDS Integers, Sequences, FiniteSets, TLC

VARIABLES
    pc,               \* position of the running call
    text,             \* the input text of the call
    existing_lines,   \* split_message_into_lines: the segments between hard breaks
    li,               \* index of the segment being processed (1-based)
    processed_lines,  \* split_message_into_lines: processed_lines
    remaining_text,   \* split_single_line: remaining_text
    result_lines,     \* split_single_line: result_lines
    breaks,           \* history: what the wrapper did after each processed line
    cur_breaks,       \* history: the same for result_lines of the running segment
    out,              \* return value of split_message_into_lines
    split_msg,        \* text_to_baudot: split_msg.upper()
    ci,               \* text_to_baudot: index of the current char (1-based)
    mi,               \* text_to_baudot: index in ['letters', 'figures'] (1-based)
    current_mode,     \* text_to_baudot: current_mode
    baudot_arr,       \* text_to_baudot: baudot_arr
    tags,             \* history: for each entry of baudot_arr, where it came from
    baudot_str,       \* return value of text_to_baudot
    args,             \* main: the parsed arguments; baudot_to_afsk: its parameters
    caller,           \* who called baudot_to_afsk: "main", or "call" for a direct call
    bi,               \* baudot_to_afsk: index of the current bit (1-based)
    phase,            \* baudot_to_afsk: phase
    tones,            \* baudot_to_afsk: tones
    afsk_signal,      \* return value of baudot_to_afsk
    sink,             \* main: the sink the signal was given to
    error             \* the exception that ended the call

vars == <<pc, text, existing_lines, li, processed_lines, remaining_text,
          result_lines, breaks, cur_breaks, out, split_msg, ci, mi,
          current_mode, baudot_arr, tags, baudot_str, args, caller, bi,
          phase, tones, afsk_signal, sink, error>>

wrapVars == <<existing_lines, li, processed_lines, remaining_text,
              result_lines, breaks, cur_breaks, out>>

encVars == <<split_msg, ci, mi, current_mode, baudot_arr, tags, baudot_str>>

afskVars == <<args, caller, bi, phase, tones, afsk_signal, sink, error>>

----------------------------------------------------------------------------
(* Bounds of the model *)

\* longest text given to text_to_baudot by the enumeration of Init
MaxTextLen == 3

\* largest number of runs a text given to split_message_into_lines is made of
MaxRuns == 3

\* longest bit string given to baudot_to_afsk by a direct call
MaxBits == 3

----------------------------------------------------------------------------
(* Constants of the program *)

DEFAULT_MARK_FREQ == 1575

DEFAULT_SPACE_FREQ == 2425

\* a baud rate is a float in the program; the model writes it in hundredths
\* of a baud, so that 45.45 baud is 4545
BAUD_UNIT == 100

DEFAULT_BAUD_RATE == 75 * BAUD_UNIT

DEFAULT_SAMPLE_RATE == 44100

LINE_WIDTH == 70

VALID_SPLITS == {" ", ",", ".", ";", ":", "!", "?", "-", "\t"}

CRLF == <<"\r", "\n">>

MARK_CODE == 1

SPACE_CODE == 0

START_BIT == <<MARK_CODE, SPACE_CODE>>

STOP_BIT == <<MARK_CODE>>

\* the characters str.strip() removes, among those the model writes
WHITESPACE == {" ", "\t", "\n", "\r", "\f"}

__wrap(symb) == START_BIT \o symb \o STOP_BIT

LETTERS_CODES ==
    ("A" :> <<1,1,0,0,0>>) @@ ("B" :> <<1,0,0,1,1>>) @@ ("C" :> <<0,1,1,1,0>>) @@ ("D" :> <<1,0,0,1,0>>) @@
    ("E" :> <<1,0,0,0,0>>) @@ ("F" :> <<1,0,1,1,0>>) @@ ("G" :> <<0,1,0,1,1>>) @@ ("H" :> <<0,0,1,0,1>>) @@
    ("I" :> <<0,1,1,0,0>>) @@ ("J" :> <<1,1,0,1,0>>) @@ ("K" :> <<1,1,1,1,0>>) @@ ("L" :> <<0,1,0,0,1>>) @@
    ("M" :> <<0,0,1,1,1>>) @@ ("N" :> <<0,0,1,1,0>>) @@ ("O" :> <<0,0,0,1,1>>) @@ ("P" :> <<0,1,1,0,1>>) @@
    ("Q" :> <<1,1,1,0,1>>) @@ ("R" :> <<0,1,0,1,0>>) @@ ("S" :> <<1,0,1,0,0>>) @@ ("T" :> <<0,0,0,0,1>>) @@
    ("U" :> <<1,1,1,0,0>>) @@ ("V" :> <<0,1,1,1,1>>) @@ ("W" :> <<1,1,0,0,1>>) @@ ("X" :> <<1,0,1,1,1>>) @@
    ("Y" :> <<1,0,1,0,1>>) @@ ("Z" :> <<1,0,0,0,1>>) @@ (" " :> <<0,0,1,0,0>>) @@ ("\n" :> <<0,0,0,1,0>>) @@
    ("\r" :> <<0,0,0,0,0>>)

FIGURES_CODES ==
    ("1" :> <<1,1,1,0,1>>) @@ ("2" :> <<1,1,0,0,1>>) @@ ("3" :> <<1,0,0,0,0>>) @@ ("4" :> <<0,1,0,1,0>>) @@
    ("5" :> <<0,0,0,0,1>>) @@ ("6" :> <<1,0,1,0,1>>) @@ ("7" :> <<1,1,1,0,0>>) @@ ("8" :> <<0,1,1,0,0>>) @@
    ("9" :> <<0,0,0,1,1>>) @@ ("0" :> <<0,1,1,0,1>>) @@ ("-" :> <<1,1,0,0,0>>) @@ ("'" :> <<1,1,0,1,0>>) @@
    ("!" :> <<1,0,1,1,0>>) @@ ("&" :> <<0,1,0,1,1>>) @@ ("#" :> <<0,0,1,0,1>>) @@ ("(" :> <<1,1,1,1,0>>) @@
    (")" :> <<0,1,0,0,1>>) @@ ("\"" :> <<1,0,0,0,1>>) @@ ("/" :> <<1,0,1,1,1>>) @@ (":" :> <<0,1,1,1,0>>) @@
    (";" :> <<0,1,1,1,1>>) @@ ("?" :> <<1,0,0,1,1>>) @@ ("," :> <<0,0,1,1,0>>) @@ ("." :> <<0,0,1,1,1>>) @@
    ("$" :> <<1,0,0,1,0>>) @@ (" " :> <<0,0,1,0,0>>) @@ ("GRAVE" :> <<1,1,0,1,0>>)

\* mutation of LTRS_CODE: the shift code is the code of the letter K
LTRS_CODE_of_K == <<1,1,1,1,0>>

LTRS_CODE == <<1,1,1,1,1>>

FIGS_CODE == <<1,1,0,1,1>>

BAUDOT_CODE ==
    [letters |-> [c \in DOMAIN LETTERS_CODES |-> __wrap(LETTERS_CODES[c])],
     figures |-> [c \in DOMAIN FIGURES_CODES |-> __wrap(FIGURES_CODES[c])],
     LTRS    |-> __wrap(LTRS_CODE),
     FIGS    |-> __wrap(FIGS_CODE)]

\* the defaults of the arguments of main (parser.add_argument) and of the
\* parameters of baudot_to_afsk; write is whether --write names a file
DefaultArgs ==
    [mark_freq   |-> DEFAULT_MARK_FREQ,
     space_freq  |-> DEFAULT_SPACE_FREQ,
     sample_rate |-> DEFAULT_SAMPLE_RATE,
     baud_rate   |-> DEFAULT_BAUD_RATE,
     write       |-> FALSE]

\* afsk_signal before baudot_to_afsk returns
NoSignal == [returned |-> FALSE, samples |-> 0]

\* the state of baudot_to_afsk and main when neither was called
AfskIdle ==
    /\ args = DefaultArgs
    /\ caller = "none"
    /\ bi = 1
    /\ phase = 0
    /\ tones = <<>>
    /\ afsk_signal = NoSignal
    /\ sink = "none"
    /\ error = "none"

----------------------------------------------------------------------------
(* Python string operations, on sequences of characters *)

Max(S) == CHOOSE x \in S : \A y \in S : y <= x

Rep(c, n) == [k \in 1..n |-> c]

Min(S) == CHOOSE x \in S : \A y \in S : x <= y

\* the concatenation of seqs[lo], ..., seqs[hi]
RECURSIVE concat_range(_, _, _)
concat_range(seqs, lo, hi) ==
    IF lo > hi THEN <<>>
    ELSE IF lo = hi THEN seqs[lo]
         ELSE concat_range(seqs, lo, (lo + hi) \div 2)
                  \o concat_range(seqs, (lo + hi) \div 2 + 1, hi)

concat(seqs) == concat_range(seqs, 1, Len(seqs))

rstrip(s) ==
    SubSeq(s, 1, Max({0} \cup {k \in 1..Len(s) : s[k] \notin WHITESPACE}))

lstrip(s) ==
    SubSeq(s, Min({Len(s) + 1} \cup {k \in 1..Len(s) : s[k] \notin WHITESPACE}),
           Len(s))

\* mutation of replace_crlf: the carriage return of a CRLF is kept
replace_crlf_kept(t) == t

\* text.replace(CRLF, '\n'): the '\r' of every '\r\n' goes
replace_crlf(t) ==
    concat([k \in 1..Len(t) |->
               IF t[k] = "\r" /\ k < Len(t) /\ t[k + 1] = "\n"
               THEN <<>> ELSE <<t[k]>>])

\* t.split('\n'): a piece starts at the start of t and after every '\n'
split_nl(t) ==
    LET stop(k) == Min({Len(t) + 1} \cup {h \in k..Len(t) : t[h] = "\n"})
    IN  concat([k \in 1..(Len(t) + 1) |->
                   IF k = 1 \/ t[k - 1] = "\n"
                   THEN <<SubSeq(t, k, stop(k) - 1)>> ELSE <<>>])

\* mutation of join_crlf: CRLF ends every line, the last one too
join_crlf_terminates(lines) ==
    concat([k \in 1..Len(lines) |-> lines[k] \o CRLF])

\* CRLF.join(lines)
join_crlf(lines) ==
    concat([k \in 1..Len(lines) |->
               IF k < Len(lines) THEN lines[k] \o CRLF ELSE lines[k]])

\* CRLF in text or '\n' in text
has_line_break(t) ==
    \/ \E k \in 1..(Len(t) - 1) : SubSeq(t, k, k + 1) = CRLF
    \/ \E k \in 1..Len(t) : t[k] = "\n"

----------------------------------------------------------------------------
(* split_single_line *)

\* mutation of find_split_idx: the scan goes down to index 0 and the line is
\* cut before the split character it finds
find_split_idx_before(r) ==
    LET found == {p \in 1..LINE_WIDTH : r[p] \in VALID_SPLITS}
    IN  IF found = {} THEN LINE_WIDTH ELSE Max(found) - 1

\* mutation of find_split_idx: a line without a split character is cut one
\* character too late
find_split_idx_late(r) ==
    LET found == {p \in 2..LINE_WIDTH : r[p] \in VALID_SPLITS}
    IN  IF found = {} THEN LINE_WIDTH + 1 ELSE Max(found)

\* the for loop of the while body: the index after the last valid split
\* character among remaining_text[1..LINE_WIDTH-1] (0-based), else LINE_WIDTH
find_split_idx(r) ==
    LET found == {p \in 2..LINE_WIDTH : r[p] \in VALID_SPLITS}
    IN  IF found = {} THEN LINE_WIDTH ELSE Max(found)

\* the branch "no valid split is found" of the while body
is_hard_split(r) == find_split_idx(r) = LINE_WIDTH /\ LINE_WIDTH < Len(r)

\* mutation of wrap_step: the split character is left out of the line
wrap_step_drops_split(r) ==
    LET idx  == find_split_idx(r)
        head == SubSeq(r, 1, idx)
        rest == SubSeq(r, idx + 1, Len(r))
    IN  IF is_hard_split(r)
        THEN [current_line |-> head, remaining_text |-> rest,
              cut |-> "hard", ws |-> <<>>]
        ELSE [current_line |-> rstrip(SubSeq(r, 1, idx - 1)),
              remaining_text |-> lstrip(rest),
              cut |-> "soft",
              ws |-> SubSeq(head, Len(rstrip(head)) + 1, Len(head))
                     \o SubSeq(rest, 1, Len(rest) - Len(lstrip(rest)))]

\* one iteration of the while loop on remaining_text = r
wrap_step(r) ==
    LET idx  == find_split_idx(r)
        head == SubSeq(r, 1, idx)
        rest == SubSeq(r, idx + 1, Len(r))
    IN  IF is_hard_split(r)
        THEN [current_line |-> head, remaining_text |-> rest,
              cut |-> "hard", ws |-> <<>>]
        ELSE [current_line |-> rstrip(head), remaining_text |-> lstrip(rest),
              cut |-> "soft",
              ws |-> SubSeq(head, Len(rstrip(head)) + 1, Len(head))
                     \o SubSeq(rest, 1, Len(rest) - Len(lstrip(rest)))]

RECURSIVE wrap_loop(_, _)
wrap_loop(result, r) ==
    IF Len(r) > LINE_WIDTH
    THEN wrap_loop(Append(result, wrap_step(r).current_line),
                   wrap_step(r).remaining_text)
    ELSE IF r # <<>> THEN Append(result, r) ELSE result

split_single_line(line) ==
    IF Len(line) <= LINE_WIDTH THEN <<line>> ELSE wrap_loop(<<>>, line)

----------------------------------------------------------------------------
(* split_message_into_lines *)

\* processed_lines after the loop "for line in existing_lines"
extend_all(lines) ==
    concat([k \in 1..Len(lines) |-> split_single_line(lines[k])])

split_message_into_lines(t) ==
    IF t = <<>> THEN t
    ELSE IF has_line_break(t)
         THEN join_crlf(extend_all(split_nl(replace_crlf(t))))
         ELSE join_crlf(split_single_line(t))

----------------------------------------------------------------------------
(* split_message_into_lines, one step of its loops at a time *)

NoBreak == [cut |-> "none", ws |-> <<>>, eol |-> TRUE]

\* the loop "for line in existing_lines" moves to the next segment or ends
next_line_pc == IF li = Len(existing_lines) THEN "join" ELSE "split_single_line"

SplitMessageEnter ==
    /\ pc = "split_message_into_lines"
    /\ IF text = <<>>
       THEN /\ out' = text
            /\ pc' = "done"
            /\ UNCHANGED <<existing_lines, li, processed_lines, breaks>>
       ELSE /\ existing_lines' = IF has_line_break(text)
                                 THEN split_nl(replace_crlf(text))
                                 ELSE <<text>>
            /\ li' = 1
            /\ processed_lines' = <<>>
            /\ breaks' = <<>>
            /\ pc' = "split_single_line"
            /\ out' = out
    /\ UNCHANGED <<text, remaining_text, result_lines, cur_breaks>>
    /\ UNCHANGED encVars
    /\ UNCHANGED afskVars

SplitSingleLineEnter ==
    /\ pc = "split_single_line"
    /\ LET line == existing_lines[li] IN
       IF Len(line) <= LINE_WIDTH
       THEN /\ processed_lines' = processed_lines \o <<line>>
            /\ breaks' = Append(breaks, NoBreak)
            /\ li' = li + 1
            /\ pc' = next_line_pc
            /\ UNCHANGED <<remaining_text, result_lines, cur_breaks>>
       ELSE /\ result_lines' = <<>>
            /\ cur_breaks' = <<>>
            /\ remaining_text' = line
            /\ pc' = "while"
            /\ UNCHANGED <<processed_lines, breaks, li>>
    /\ UNCHANGED <<text, existing_lines, out>>
    /\ UNCHANGED encVars
    /\ UNCHANGED afskVars

WhileIter ==
    /\ pc = "while"
    /\ Len(remaining_text) > LINE_WIDTH
    /\ LET s == wrap_step(remaining_text) IN
       /\ result_lines' = Append(result_lines, s.current_line)
       /\ remaining_text' = s.remaining_text
       /\ cur_breaks' = Append(cur_breaks,
                               [cut |-> s.cut, ws |-> s.ws, eol |-> FALSE])
    /\ UNCHANGED <<pc, text, existing_lines, li, processed_lines, breaks, out>>
    /\ UNCHANGED encVars
    /\ UNCHANGED afskVars

\* the end of the while loop, "if remaining_text", the return and the extend
WhileExit ==
    /\ pc = "while"
    /\ ~(Len(remaining_text) > LINE_WIDTH)
    /\ IF remaining_text # <<>>
       THEN /\ result_lines' = Append(result_lines, remaining_text)
            /\ cur_breaks' = Append(cur_breaks, NoBreak)
       ELSE /\ result_lines' = result_lines
            /\ cur_breaks' = [cur_breaks EXCEPT ![Len(cur_breaks)].eol = TRUE]
    /\ processed_lines' = processed_lines \o result_lines'
    /\ breaks' = breaks \o cur_breaks'
    /\ li' = li + 1
    /\ pc' = next_line_pc
    /\ UNCHANGED <<text, existing_lines, remaining_text, out>>
    /\ UNCHANGED encVars
    /\ UNCHANGED afskVars

Join ==
    /\ pc = "join"
    /\ out' = join_crlf(processed_lines)
    /\ pc' = "done"
    /\ UNCHANGED <<text, existing_lines, li, processed_lines, remaining_text,
                   result_lines, breaks, cur_breaks>>
    /\ UNCHANGED encVars
    /\ UNCHANGED afskVars

\* the texts given to split_message_into_lines: up to MaxRuns runs of one
\* character each
WrapChars == {"A", " ", "-", "\r", "\n"}

RunLens == {1, 69}

text_of_runs(rs) == concat([k \in 1..Len(rs) |-> Rep(rs[k][1], rs[k][2])])

WrapTexts ==
    {text_of_runs(rs) :
        rs \in UNION {[1..n -> WrapChars \X RunLens] : n \in 0..MaxRuns}}

InitWrap ==
    /\ pc = "split_message_into_lines"
    /\ text \in WrapTexts
    /\ existing_lines = <<>>
    /\ li = 1
    /\ processed_lines = <<>>
    /\ remaining_text = <<>>
    /\ result_lines = <<>>
    /\ breaks = <<>>
    /\ cur_breaks = <<>>
    /\ out = <<>>
    /\ split_msg = <<>>
    /\ ci = 1
    /\ mi = 1
    /\ current_mode = "letters"
    /\ baudot_arr = <<>>
    /\ tags = <<>>
    /\ baudot_str = <<>>
    /\ AfskIdle

NextWrap ==
    \/ SplitMessageEnter
    \/ SplitSingleLineEnter
    \/ WhileIter
    \/ WhileExit
    \/ Join

SpecWrap == InitWrap /\ [][NextWrap]_vars

----------------------------------------------------------------------------
(* text_to_baudot *)

LOWER == <<"a", "b", "c", "d", "e", "f", "g", "h", "i", "j", "k", "l", "m",
           "n", "o", "p", "q", "r", "s", "t", "u", "v", "w", "x", "y", "z">>

UPPER == <<"A", "B", "C", "D", "E", "F", "G", "H", "I", "J", "K", "L", "M",
           "N", "O", "P", "Q", "R", "S", "T", "U", "V", "W", "X", "Y", "Z">>

\* str.upper(), on the ASCII characters
upper(t) ==
    [k \in 1..Len(t) |->
        IF \E j \in 1..Len(LOWER) : LOWER[j] = t[k]
        THEN UPPER[CHOOSE j \in 1..Len(LOWER) : LOWER[j] = t[k]]
        ELSE t[k]]

\* the list ['letters', 'figures'] of the inner for loop
MODES == <<"letters", "figures">>

\* mode_shift['LTRS' if mode == 'letters' else 'FIGS']
mode_shift(mode) ==
    IF mode = "letters" THEN BAUDOT_CODE.LTRS ELSE BAUDOT_CODE.FIGS

\* mutation of initial_mode: the encoder starts in figures mode
initial_mode_figures == "figures"

\* current_mode at the start of text_to_baudot
initial_mode == "letters"

\* mutation of encode_iter: current_mode is not updated after a shift
encode_iter_mode_kept(st, char, idx, mode) ==
    IF char \in DOMAIN BAUDOT_CODE[mode]
    THEN LET shifted == st.mode # mode
             arr1  == IF shifted THEN Append(st.arr, mode_shift(mode)) ELSE st.arr
             tags1 == IF shifted
                      THEN Append(st.tags, [shift |-> TRUE, mode |-> mode, ci |-> idx])
                      ELSE st.tags
         IN  [mode |-> st.mode,
              arr  |-> Append(arr1, BAUDOT_CODE[mode][char]),
              tags |-> Append(tags1, [shift |-> FALSE, mode |-> mode, ci |-> idx])]
    ELSE st

\* mutation of encode_iter: a character of neither sub-table resets the mode
encode_iter_skip_resets(st, char, idx, mode) ==
    IF char \in DOMAIN BAUDOT_CODE[mode]
    THEN LET shifted == st.mode # mode
             arr1  == IF shifted THEN Append(st.arr, mode_shift(mode)) ELSE st.arr
             tags1 == IF shifted
                      THEN Append(st.tags, [shift |-> TRUE, mode |-> mode, ci |-> idx])
                      ELSE st.tags
         IN  [mode |-> mode,
              arr  |-> Append(arr1, BAUDOT_CODE[mode][char]),
              tags |-> Append(tags1, [shift |-> FALSE, mode |-> mode, ci |-> idx])]
    ELSE [st EXCEPT !.mode = initial_mode]

\* One iteration of "for mode in ['letters', 'figures']" for the character
\* char at index idx, from the state st = [mode, arr, tags]
encode_iter(st, char, idx, mode) ==
    IF char \in DOMAIN BAUDOT_CODE[mode]
    THEN LET shifted == st.mode # mode
             arr1  == IF shifted THEN Append(st.arr, mode_shift(mode)) ELSE st.arr
             tags1 == IF shifted
                      THEN Append(st.tags, [shift |-> TRUE, mode |-> mode, ci |-> idx])
                      ELSE st.tags
         IN  [mode |-> mode,
              arr  |-> Append(arr1, BAUDOT_CODE[mode][char]),
              tags |-> Append(tags1, [shift |-> FALSE, mode |-> mode, ci |-> idx])]
    ELSE st

\* ''.join(baudot_arr)
join_bits(arr) == concat(arr)

\* the count of mark bits that opens baudot_str
PREAMBLE_MARKS == 20

\* mutation of build_baudot_str: the trailing mark bit is forgotten
build_baudot_str_no_trailing(arr) ==
    Rep(MARK_CODE, PREAMBLE_MARKS) \o mode_shift("letters") \o join_bits(arr)

\* baudot_str as built from baudot_arr at the end of text_to_baudot
build_baudot_str(arr) ==
    Rep(MARK_CODE, PREAMBLE_MARKS) \o mode_shift("letters")
        \o join_bits(arr) \o <<MARK_CODE>>

TextToBaudotEnter ==
    /\ pc = "text_to_baudot"
    /\ split_msg' = upper(split_message_into_lines(CRLF \o text))
    /\ current_mode' = initial_mode
    /\ baudot_arr' = <<>>
    /\ tags' = <<>>
    /\ ci' = 1
    /\ mi' = 1
    /\ pc' = IF split_msg' = <<>> THEN "build" ELSE "for"
    /\ UNCHANGED <<text, baudot_str>>
    /\ UNCHANGED wrapVars
    /\ UNCHANGED afskVars

EncodeIter ==
    /\ pc = "for"
    /\ LET st == encode_iter([mode |-> current_mode, arr |-> baudot_arr,
                              tags |-> tags], split_msg[ci], ci, MODES[mi])
       IN  /\ current_mode' = st.mode
           /\ baudot_arr' = st.arr
           /\ tags' = st.tags
    /\ IF mi < Len(MODES)
       THEN /\ mi' = mi + 1
            /\ UNCHANGED <<ci, pc>>
       ELSE /\ mi' = 1
            /\ ci' = ci + 1
            /\ pc' = IF ci = Len(split_msg) THEN "build" ELSE "for"
    /\ UNCHANGED <<text, split_msg, baudot_str>>
    /\ UNCHANGED wrapVars
    /\ UNCHANGED afskVars

BuildBaudotStr ==
    /\ pc = "build"
    /\ baudot_str' = build_baudot_str(baudot_arr)
    /\ pc' = "done"
    /\ UNCHANGED <<text, split_msg, ci, mi, current_mode, baudot_arr, tags>>
    /\ UNCHANGED wrapVars
    /\ UNCHANGED afskVars

\* the texts given to text_to_baudot: every text of at most MaxTextLen
\* characters of EncChars, and letters-only texts around the line width
EncChars == {"A", "B", "b", " ", "1", "-", "'", "GRAVE", "@"}

LongTexts == {Rep("A", LINE_WIDTH), Rep("A", LINE_WIDTH + 1)}

EncTexts ==
    UNION {[1..n -> EncChars] : n \in 0..MaxTextLen} \cup LongTexts

Init ==
    /\ pc = "text_to_baudot"
    /\ text \in EncTexts
    /\ existing_lines = <<>>
    /\ li = 1
    /\ processed_lines = <<>>
    /\ remaining_text = <<>>
    /\ result_lines = <<>>
    /\ breaks = <<>>
    /\ cur_breaks = <<>>
    /\ out = <<>>
    /\ split_msg = <<>>
    /\ ci = 1
    /\ mi = 1
    /\ current_mode = "letters"
    /\ baudot_arr = <<>>
    /\ tags = <<>>
    /\ baudot_str = <<>>
    /\ AfskIdle

Next ==
    \/ TextToBaudotEnter
    \/ EncodeIter
    \/ BuildBaudotStr

Spec == Init /\ [][Next]_vars

----------------------------------------------------------------------------
(* Properties of text_to_baudot, checked under Spec *)

Mappable(c) == c \in DOMAIN LETTERS_CODES \cup DOMAIN FIGURES_CODES

\* the wrapped, upper-cased text without its unmappable characters
mapped_text == SelectSeq(split_msg, Mappable)

CODES == [letters |-> LETTERS_CODES, figures |-> FIGURES_CODES]

CharFrames == {k \in 1..Len(tags) : ~tags[k].shift}

ShiftFrames == {k \in 1..Len(tags) : tags[k].shift}

\* A Baudot receiver.  Marks are idle and skipped; a space starts a frame
\* of 5 data bits and a stop bit.  frame_end is the position after the frame
\* that starts at the first space at or after p (past the end when there is
\* no whole frame any more).
frame_end(bits, p) ==
    LET starts == {q \in p..Len(bits) : bits[q] = SPACE_CODE}
    IN  IF starts = {} \/ Min(starts) + 6 > Len(bits)
        THEN Len(bits) + 2
        ELSE Min(starts) + 7

\* the positions after the next n frames from position p
RECURSIVE frame_ends(_, _, _)
frame_ends(bits, p, n) ==
    IF n = 0 THEN <<>>
    ELSE IF n = 1 THEN <<frame_end(bits, p)>>
         ELSE LET left == frame_ends(bits, p, n \div 2)
              IN  left \o frame_ends(bits, left[Len(left)], n - n \div 2)

\* the 5-bit codes of the frames of bits, start and stop bits stripped
received_codes(bits) ==
    LET ends == frame_ends(bits, 1, Len(bits) \div 7)
    IN  concat([k \in 1..Len(ends) |->
                   IF ends[k] <= Len(bits) + 1
                   THEN <<SubSeq(bits, ends[k] - 6, ends[k] - 2)>>
                   ELSE <<>>])

\* LTRS and FIGS set the shift state; any other code prints the character
\* that the sub-table of the shift state has for it
receive(bits) ==
    LET codes == received_codes(bits)
        shift(k) ==
            LET sh == {j \in 1..(k - 1) : codes[j] \in {LTRS_CODE, FIGS_CODE}}
            IN  IF sh = {} \/ codes[Max(sh)] = LTRS_CODE
                THEN "letters" ELSE "figures"
        hits(k) == {c \in DOMAIN CODES[shift(k)] : CODES[shift(k)][c] = codes[k]}
    IN  concat([k \in 1..Len(codes) |->
                   IF codes[k] \in {LTRS_CODE, FIGS_CODE} \/ hits(k) = {}
                   THEN <<>>
                   ELSE <<CHOOSE c \in hits(k) : TRUE>>])

\* C1: decoding the returned bit sequence with a Baudot receiver gives back
\* the wrapped, upper-cased text without its unmappable characters, every
\* character once and in order.
C1_RoundTrip ==
    pc = "done" => receive(baudot_str) = mapped_text

\* the sub-table of the last character frame before entry k of baudot_arr
\* (the initial mode when there is none)
mode_before(k) ==
    LET before == {j \in CharFrames : j < k}
    IN  IF before = {} THEN "letters" ELSE tags[Max(before)].mode

\* C2: a character frame of a sub-table other than the current shift state
\* comes right after exactly one shift frame for that sub-table, and the
\* shift state becomes that sub-table; between two consecutive character
\* frames of the same sub-table there is no shift frame.
C2_ShiftOnlyOnModeChange ==
    /\ Len(tags) = Len(baudot_arr)
    /\ current_mode = mode_before(Len(baudot_arr) + 1)
    /\ \A k \in ShiftFrames : baudot_arr[k] = mode_shift(tags[k].mode)
    /\ \A k \in CharFrames :
          /\ baudot_arr[k] = BAUDOT_CODE[tags[k].mode][split_msg[tags[k].ci]]
          /\ IF tags[k].mode # mode_before(k)
             THEN /\ k - 1 \in ShiftFrames
                  /\ tags[k - 1].mode = tags[k].mode
                  /\ k - 2 \notin ShiftFrames
             ELSE k - 1 \notin ShiftFrames

\* C2 witness: a text whose encoding went to figures and back to letters
C2_Witness ==
    /\ pc = "done"
    /\ text = <<"A", "1", "B">>
    /\ \E k \in ShiftFrames : tags[k].mode = "figures"
    /\ \E k \in ShiftFrames : tags[k].mode = "letters"

\* C3: every mappable character of the wrapped, upper-cased text gives
\* exactly one character frame, with its letters code when the letters
\* sub-table has it, else with its figures code.
C3_OneFramePerCharacter ==
    pc = "done" =>
        \A i \in 1..Len(split_msg) :
            Mappable(split_msg[i]) =>
                /\ Cardinality({k \in CharFrames : tags[k].ci = i}) = 1
                /\ \A k \in CharFrames :
                      tags[k].ci = i =>
                          tags[k].mode = IF split_msg[i] \in DOMAIN LETTERS_CODES
                                         THEN "letters" ELSE "figures"

\* the for loop of text_to_baudot over chars[lo..hi], from the state st
RECURSIVE encode_range(_, _, _, _)
encode_range(st, chars, lo, hi) ==
    IF lo > hi THEN st
    ELSE IF lo = hi
         THEN encode_iter(encode_iter(st, chars[lo], lo, MODES[1]),
                          chars[lo], lo, MODES[2])
         ELSE LET left == encode_range(st, chars, lo, (lo + hi) \div 2)
              IN  \* the test makes TLC evaluate the left half first
                  IF left.mode \in {MODES[1], MODES[2]}
                  THEN encode_range(left, chars, (lo + hi) \div 2 + 1, hi)
                  ELSE left

encode_chars(chars) ==
    encode_range([mode |-> initial_mode, arr |-> <<>>, tags |-> <<>>],
                 chars, 1, Len(chars))

\* C4: a character of neither sub-table is skipped: the frames, the final
\* shift state and the returned bits are those of the wrapped text with the
\* unmappable characters taken out.
C4_UnmappableSkipped ==
    pc = "done" =>
        /\ baudot_arr = encode_chars(mapped_text).arr
        /\ current_mode = encode_chars(mapped_text).mode
        /\ baudot_str = build_baudot_str(encode_chars(mapped_text).arr)
        /\ \A k \in 1..Len(tags) : Mappable(split_msg[tags[k].ci])

\* C4 witness: an unmappable character between two figures
C4_Witness ==
    /\ pc = "done"
    /\ text = <<"1", "@", "1">>
    /\ Len(baudot_arr) = 5

\* C5: every frame is 7 bits: a space start bit, the 5 data bits of the
\* table code, a mark stop bit.
C5_SevenBitFrames ==
    \A k \in 1..Len(baudot_arr) :
        /\ Len(baudot_arr[k]) = 7
        /\ baudot_arr[k][1] = SPACE_CODE
        /\ baudot_arr[k][7] = MARK_CODE
        /\ SubSeq(baudot_arr[k], 2, 6) =
               IF tags[k].shift
               THEN (IF tags[k].mode = "letters" THEN LTRS_CODE ELSE FIGS_CODE)
               ELSE CODES[tags[k].mode][split_msg[tags[k].ci]]

\* C6: the returned bits are a preamble of a fixed count (at least 19) of
\* marks, then the LTRS frame, then the frames of baudot_arr, of which the
\* first is a character frame (no second LTRS and no FIGS before it), then
\* one trailing mark.
C6_PreambleAndTrailer ==
    pc = "done" =>
        LET n == Len(baudot_str)
            f == Len(BAUDOT_CODE.LTRS)
        IN  /\ PREAMBLE_MARKS >= 19
            /\ n = PREAMBLE_MARKS + f + Len(join_bits(baudot_arr)) + 1
            /\ \A i \in 1..PREAMBLE_MARKS : baudot_str[i] = MARK_CODE
            /\ SubSeq(baudot_str, PREAMBLE_MARKS + 1, PREAMBLE_MARKS + f)
                   = BAUDOT_CODE.LTRS
            /\ SubSeq(baudot_str, PREAMBLE_MARKS + f + 1, n - 1)
                   = join_bits(baudot_arr)
            /\ baudot_str[n] = MARK_CODE
            /\ baudot_arr # <<>> => 1 \in CharFrames

\* C6 witness: a text that begins with a letter and goes on with a figure
C6_Witness ==
    /\ pc = "done"
    /\ text = <<"A", "1">>
    /\ ShiftFrames # {}

\* C7: the length of the returned bits without the preamble is
\* 7 * (characters mapped + shift transitions).
C7_LengthSevenPerFrame ==
    pc = "done" =>
        Len(baudot_str) - PREAMBLE_MARKS
            = 7 * (Len(mapped_text) + Cardinality(ShiftFrames))

LettersOnly(t) == \A k \in 1..Len(t) : \E j \in 1..Len(UPPER) : UPPER[j] = t[k]

\* C8 as stated: a text of letters A-Z no longer than the line width gives
\* as many character frames as it has characters, with their letters codes
\* in order, and no shift frame.
C8_OneFramePerLetter ==
    (pc = "done" /\ LettersOnly(text) /\ Len(text) <= LINE_WIDTH) =>
        /\ Len(baudot_arr) = Len(text)
        /\ \A k \in 1..Len(baudot_arr) :
              baudot_arr[k] = BAUDOT_CODE.letters[text[k]]

\* C8 amended: such a text gives the frames of the carriage return and the
\* line feed that text_to_baudot puts before the text, then one character
\* frame per character, with their letters codes in order, and no shift
\* frame.
C8_LeadingBreakThenLetters ==
    (pc = "done" /\ LettersOnly(text) /\ Len(text) <= LINE_WIDTH) =>
        /\ ShiftFrames = {}
        /\ baudot_arr = <<BAUDOT_CODE.letters["\r"], BAUDOT_CODE.letters["\n"]>>
                           \o [k \in 1..Len(text) |-> BAUDOT_CODE.letters[text[k]]]

\* C8 witness: "AB"
C8_Witness ==
    /\ pc = "done"
    /\ text = <<"A", "B">>
    /\ Len(baudot_arr) = 4

----------------------------------------------------------------------------
(* Properties of split_message_into_lines, checked under SpecWrap *)

\* the pieces of t between its CRLF terminators
lines_of(t) ==
    LET at(k)   == k >= 1 /\ k < Len(t) /\ SubSeq(t, k, k + 1) = CRLF
        stop(k) == Min({Len(t) + 1} \cup {h \in k..Len(t) : at(h)})
    IN  concat([k \in 1..(Len(t) + 1) |->
                   IF k = 1 \/ at(k - 2)
                   THEN <<SubSeq(t, k, stop(k) - 1)>> ELSE <<>>])

NoSplitChar(t) == \A k \in 1..Len(t) : t[k] \notin VALID_SPLITS \cup {"\n"}

\* C9: every line of the output has at most LINE_WIDTH characters, and a
\* text without a valid split character that is longer than LINE_WIDTH is
\* cut into pieces of exactly LINE_WIDTH characters, the last piece being
\* what is left.
C9_NoLineLongerThanWidth ==
    pc = "done" =>
        LET lines == lines_of(out) IN
        /\ \A k \in 1..Len(lines) : Len(lines[k]) <= LINE_WIDTH
        /\ (NoSplitChar(text) /\ Len(text) > LINE_WIDTH) =>
              /\ \A k \in 1..(Len(lines) - 1) : Len(lines[k]) = LINE_WIDTH
              /\ lines[Len(lines)] # <<>>
              /\ concat(lines) = text

\* C9 witness: a run without a split character was cut in three
C9_Witness ==
    /\ pc = "done"
    /\ NoSplitChar(text)
    /\ Len(text) > 2 * LINE_WIDTH
    /\ Len(lines_of(out)) = 3

nonws(t) == SelectSeq(t, LAMBDA c : c \notin WHITESPACE)

\* t.split(): the words of t, the runs of non-whitespace characters
words(t) ==
    LET stop(k) == Min({Len(t) + 1} \cup {h \in k..Len(t) : t[h] \in WHITESPACE})
    IN  concat([k \in 1..Len(t) |->
                   IF t[k] \notin WHITESPACE /\ (k = 1 \/ t[k - 1] \in WHITESPACE)
                   THEN <<SubSeq(t, k, stop(k) - 1)>> ELSE <<>>])

\* the processed lines, each followed by sep(k) when another line follows
rejoined(sep(_)) ==
    concat([k \in 1..Len(processed_lines) |->
               IF k < Len(processed_lines)
               THEN processed_lines[k] \o sep(k) ELSE processed_lines[k]])

\* the processed lines with what was trimmed at each break put back
restored ==
    concat([k \in 1..Len(processed_lines) |->
               processed_lines[k] \o breaks[k].ws
                   \o IF breaks[k].eol /\ k < Len(processed_lines)
                      THEN <<"\n">> ELSE <<>>])

OnlyWhitespaceRemoved ==
    /\ Len(breaks) = Len(processed_lines)
    /\ \A k \in 1..Len(breaks) :
          \A j \in 1..Len(breaks[k].ws) : breaks[k].ws[j] \in WHITESPACE
    /\ restored = replace_crlf(text)

\* a single space at every inserted break that is not a hard split at the
\* width; the line breaks of the input stay
space_at_soft_breaks(k) ==
    IF breaks[k].eol THEN <<"\n">>
    ELSE IF breaks[k].cut = "hard" THEN <<>> ELSE <<" ">>

\* a single space at the inserted breaks where whitespace was trimmed
space_where_trimmed(k) ==
    IF breaks[k].eol THEN <<"\n">>
    ELSE IF breaks[k].ws # <<>> THEN <<" ">> ELSE <<>>

\* C10 as stated: the non-whitespace characters are kept in order, only
\* whitespace at a break is removed, and the lines rejoined with a single
\* space at the inserted (non-hard) breaks have the words of the input.
C10_WordsKeptWithSpaces ==
    pc = "done" =>
        /\ lines_of(out) = IF text = <<>> THEN <<text>> ELSE processed_lines
        /\ nonws(out) = nonws(text)
        /\ OnlyWhitespaceRemoved
        /\ words(rejoined(space_at_soft_breaks)) = words(text)

\* C10 amended: the same, with the single space only at the inserted breaks
\* where whitespace was trimmed, and nothing at the other inserted breaks.
C10_WordsKeptWhereTrimmed ==
    pc = "done" =>
        /\ lines_of(out) = IF text = <<>> THEN <<text>> ELSE processed_lines
        /\ nonws(out) = nonws(text)
        /\ OnlyWhitespaceRemoved
        /\ words(rejoined(space_where_trimmed)) = words(text)

\* C10 witness: a break right after a hyphen that a letter follows, in a
\* text that is one word
C10_Witness ==
    /\ pc = "done"
    /\ Len(words(text)) = 1
    /\ \E k \in 1..Len(breaks) :
          breaks[k].cut = "soft" /\ breaks[k].ws = <<>> /\ ~breaks[k].eol

\* C11: wrapping the wrapped text again changes nothing.
C11_WrapIdempotent ==
    pc = "done" => split_message_into_lines(out) = out

\* C11 witness: a text that the first wrapping cut in two and trimmed
C11_Witness ==
    /\ pc = "done"
    /\ Len(existing_lines) = 1
    /\ Len(processed_lines) = 2
    /\ breaks[1].ws # <<>>
    /\ split_message_into_lines(out) = out

\* C18: a text without line break and of at most LINE_WIDTH characters is
\* returned as it is: the empty text stays empty, a text of LINE_WIDTH
\* characters is not cut.
C18_ShortTextUnchanged ==
    (pc = "done" /\ ~has_line_break(text) /\ Len(text) <= LINE_WIDTH) =>
        out = text

\* C18 witness: a text of exactly LINE_WIDTH characters
C18_Witness ==
    /\ pc = "done"
    /\ ~has_line_break(text)
    /\ Len(text) = LINE_WIDTH
    /\ out = text

\* a step of the while loop of split_single_line
InWhile == pc = "while" /\ Len(remaining_text) > LINE_WIDTH

\* the valid split characters of remaining_text at the 0-based indexes
\* 1 .. LINE_WIDTH - 1, as 1-based positions
SplitPositions ==
    {p \in 2..LINE_WIDTH : remaining_text[p] \in VALID_SPLITS}

\* C15: when the segment has a valid split character at an index in
\* [1, width), the break comes right after the last such character, which
\* stays on the side of the current line, and the continuation is trimmed:
\* it does not begin with a whitespace character.
C15_ContinuationTrimmed ==
    [][(InWhile /\ SplitPositions # {}) =>
          LET p    == Max(SplitPositions)
              line == result_lines'[Len(result_lines')]
          IN  /\ rstrip(line) = rstrip(SubSeq(remaining_text, 1, p))
              /\ Len(line) <= p
              /\ remaining_text' =
                     lstrip(SubSeq(remaining_text, p + 1, Len(remaining_text)))
              /\ remaining_text' # <<>> =>
                     remaining_text'[1] \notin WHITESPACE]_vars

\* C16: the segment is cut at exactly width with nothing removed if and
\* only if it has no valid split character at an index in [1, width); in
\* every other case the line is what comes up to the last split character,
\* right-trimmed, and the continuation is the rest, left-trimmed.
C16_HardSplitIffNoSplitChar ==
    [][InWhile =>
          LET line == result_lines'[Len(result_lines')]
              cut(p, trim) ==
                  /\ line = IF trim THEN rstrip(SubSeq(remaining_text, 1, p))
                            ELSE SubSeq(remaining_text, 1, p)
                  /\ remaining_text' =
                         IF trim
                         THEN lstrip(SubSeq(remaining_text, p + 1,
                                            Len(remaining_text)))
                         ELSE SubSeq(remaining_text, p + 1, Len(remaining_text))
          IN  IF SplitPositions = {}
              THEN cut(LINE_WIDTH, FALSE)
              ELSE cut(Max(SplitPositions), TRUE)]_vars

\* the positions of the line feeds of t
line_feeds(t) == {k \in 1..Len(t) : t[k] = "\n"}

\* text is a, one '\n' and b, where a and b have no line feed
OneLineFeed == Cardinality(line_feeds(text)) = 1

before_line_feed == SubSeq(text, 1, Max(line_feeds(text)) - 1)

after_line_feed == SubSeq(text, Max(line_feeds(text)) + 1, Len(text))

\* wrap(a + '\n' + b) = wrap(a + '\r\n' + b) = wrap(a) + '\r\n' + wrap(b)
break_law(a, b) ==
    /\ split_message_into_lines(a \o <<"\n">> \o b) =
           split_message_into_lines(a \o CRLF \o b)
    /\ split_message_into_lines(a \o CRLF \o b) =
           split_message_into_lines(a) \o CRLF \o split_message_into_lines(b)

\* every '\n' of the output is the second character of a '\r\n', and the
\* output has at least as many of them as the input has '\n'
terminators_canonical ==
    /\ \A k \in line_feeds(out) : k > 1 /\ out[k - 1] = "\r"
    /\ Cardinality(line_feeds(out)) >= Cardinality(line_feeds(text))

\* C17 as stated: for all a and b without a line feed, the text a + '\n' + b
\* is wrapped like a + '\r\n' + b and like wrap(a) + '\r\n' + wrap(b); the
\* output's line terminators are all '\r\n' and no hard break is lost.
C17_BreaksEquivalent ==
    (pc = "done" /\ OneLineFeed) =>
        /\ out = split_message_into_lines(before_line_feed) \o CRLF \o
                     split_message_into_lines(after_line_feed)
        /\ break_law(before_line_feed, after_line_feed)
        /\ terminators_canonical

\* the text before the separator of the one-line-feed text: what comes
\* before the '\r\n' when the line feed follows a carriage return
before_separator ==
    LET a == before_line_feed
    IN  IF a # <<>> /\ a[Len(a)] = "\r" THEN SubSeq(a, 1, Len(a) - 1) ELSE a

ends_with_cr(a) == a # <<>> /\ a[Len(a)] = "\r"

\* C17 amended: the same law for all a and b without a line feed where a
\* does not end with a carriage return, whichever of the two separators the
\* text has; and for every text the output's line feeds all follow a
\* carriage return and are at least as many as the input's.
C17_BreaksEquivalentUnlessCR ==
    pc = "done" =>
        /\ terminators_canonical
        /\ (OneLineFeed /\ ~ends_with_cr(before_separator)) =>
               /\ out = split_message_into_lines(before_separator) \o CRLF \o
                            split_message_into_lines(after_line_feed)
               /\ break_law(before_separator, after_line_feed)

C17_Witness ==
    /\ pc = "done" /\ OneLineFeed /\ ~ends_with_cr(before_separator)
    /\ Len(before_separator) > LINE_WIDTH
    /\ Len(processed_lines) >= 3
    /\ break_law(before_separator, after_line_feed)

C17_WitnessCRLF ==
    /\ pc = "done" /\ OneLineFeed /\ ends_with_cr(before_line_feed)
    /\ ~ends_with_cr(before_separator) /\ before_separator # <<>>
    /\ break_law(before_separator, after_line_feed)

\* C19: every iteration of the wrapping loop removes at least one character
\* from the remaining text, whose length is a natural number: the loop ends
\* after at most as many iterations as the line has characters.
C19_RemainingShrinks ==
    [][InWhile => /\ Len(remaining_text') < Len(remaining_text)
                  /\ Len(result_lines') = Len(result_lines) + 1
                  /\ pc' = "while"]_vars

\* a line went through two iterations of the loop and the wrapper returned
C19_Witness ==
    /\ pc = "done"
    /\ Len(existing_lines) = 1
    /\ Len(text) > 2 * LINE_WIDTH
    /\ Len(processed_lines) >= 3

\* the characters a receiver in the given shift state can read a frame as
decodes(mode, frame) ==
    {c \in DOMAIN BAUDOT_CODE[mode] : BAUDOT_CODE[mode][c] = frame}

shift_frames == {BAUDOT_CODE.LTRS, BAUDOT_CODE.FIGS}

\* the two characters of the figures sub-table that have the code 11010
APOSTROPHES == {"'", "GRAVE"}

\* C20 as stated: in each sub-table no two distinct characters share a code,
\* so every (shift state, code) pair decodes to at most one character: every
\* character frame the encoder emitted decodes, in the shift state it was
\* sent in, to the character it was emitted for and to no other.
C20_TableUnambiguous ==
    \A k \in CharFrames :
        decodes(tags[k].mode, baudot_arr[k]) =
            {upper(<<split_msg[tags[k].ci]>>)[1]}

\* C20 amended: no two distinct letters share a code; the only figures that
\* share a code are the apostrophe and the grave accent (11010), which a
\* receiver cannot tell apart; no character's code is the LTRS or the FIGS
\* code; and every character frame the encoder emitted decodes, in the shift
\* state it was sent in, to the character it was emitted for.
C20_UnambiguousButApostrophes ==
    /\ \A mode \in {MODES[1], MODES[2]} :
           \A c \in DOMAIN BAUDOT_CODE[mode] :
               /\ decodes(mode, BAUDOT_CODE[mode][c]) =
                      IF mode = MODES[2] /\ c \in APOSTROPHES
                      THEN APOSTROPHES ELSE {c}
               /\ BAUDOT_CODE[mode][c] \notin shift_frames
    /\ LTRS_CODE # FIGS_CODE
    /\ \A k \in CharFrames :
           LET c == upper(<<split_msg[tags[k].ci]>>)[1]
           IN  /\ c \in decodes(tags[k].mode, baudot_arr[k])
               /\ decodes(tags[k].mode, baudot_arr[k]) \in {{c}, APOSTROPHES}

\* an apostrophe and a grave accent were encoded, as the same frame
C20_Witness ==
    /\ pc = "done"
    /\ text = <<"'", "GRAVE">>
    /\ baudot_arr[Len(baudot_arr)] = baudot_arr[Len(baudot_arr) - 1]
    /\ decodes(MODES[2], baudot_arr[Len(baudot_arr)]) = APOSTROPHES

----------------------------------------------------------------------------
(* generate_tone, baudot_to_afsk and main *)

abs(x) == IF x < 0 THEN -x ELSE x

\* int(num / den): the quotient with its fraction cut off, towards zero
int(num, den) ==
    LET q == abs(num) \div abs(den)
    IN  IF (num < 0) = (den < 0) THEN q ELSE -q

\* text_to_baudot as a function of its text
text_to_baudot(t) ==
    build_baudot_str(
        encode_chars(upper(split_message_into_lines(CRLF \o t))).arr)

\* mutation of generate_tone: the final phase does not count the initial one
generate_tone_from_zero(frequency, baud_rate, sample_rate, initial_phase) ==
    LET num == int(sample_rate * BAUD_UNIT, baud_rate)
    IN  IF num < 0
        THEN [error |-> "ValueError"]
        ELSE [error |-> "none",
              tone  |-> [frequency |-> frequency, num |-> num,
                         initial_phase |-> initial_phase],
              final_phase |->
                  (IF baud_rate < 0 THEN -1 ELSE 1) * frequency * BAUD_UNIT
                      % abs(baud_rate)]

\* mutation of generate_tone: the sample count is rounded up
generate_tone_one_more(frequency, baud_rate, sample_rate, initial_phase) ==
    LET num == int(sample_rate * BAUD_UNIT, baud_rate) + 1
    IN  IF num < 0
        THEN [error |-> "ValueError"]
        ELSE [error |-> "none",
              tone  |-> [frequency |-> frequency, num |-> num,
                         initial_phase |-> initial_phase],
              final_phase |->
                  (initial_phase
                     + (IF baud_rate < 0 THEN -1 ELSE 1) * frequency * BAUD_UNIT)
                      % abs(baud_rate)]

\* generate_tone(frequency, duration, sample_rate, initial_phase), where the
\* duration is 1 / baud_rate and baud_rate # 0.  A phase is written as a
\* number of 1 / abs(baud_rate) parts of a turn of 2 pi, in which
\* 2 pi * frequency * duration is a whole number.  The tone is written by
\* its frequency, its number of samples and its phase at the first sample.
\* np.linspace raises ValueError for a negative number of samples.
generate_tone(frequency, baud_rate, sample_rate, initial_phase) ==
    LET num == int(sample_rate * BAUD_UNIT, baud_rate)
    IN  IF num < 0
        THEN [error |-> "ValueError"]
        ELSE [error |-> "none",
              tone  |-> [frequency |-> frequency, num |-> num,
                         initial_phase |-> initial_phase],
              final_phase |->
                  (initial_phase
                     + (IF baud_rate < 0 THEN -1 ELSE 1) * frequency * BAUD_UNIT)
                      % abs(baud_rate)]

\* the number of samples of np.concatenate(tones[lo..hi])
RECURSIVE samples_range(_, _, _)
samples_range(ts, lo, hi) ==
    IF lo > hi THEN 0
    ELSE IF lo = hi THEN ts[lo].num
    ELSE samples_range(ts, lo, (lo + hi) \div 2)
             + samples_range(ts, (lo + hi) \div 2 + 1, hi)

\* the variables text_to_baudot works on, but for its return value
encLocals == <<split_msg, ci, mi, current_mode, baudot_arr, tags>>

\* main, up to the call of baudot_to_afsk
MainTextToBaudot ==
    /\ pc = "main"
    /\ baudot_str' = text_to_baudot(text)
    /\ pc' = "baudot_to_afsk"
    /\ UNCHANGED <<text, args, caller, bi, phase, tones, afsk_signal, sink,
                   error>>
    /\ UNCHANGED <<wrapVars, encLocals>>

\* baudot_to_afsk, up to the for loop: 1 / baud_rate raises
\* ZeroDivisionError when baud_rate is 0
BaudotToAfskEnter ==
    /\ pc = "baudot_to_afsk"
    /\ IF args.baud_rate = 0
       THEN /\ error' = "ZeroDivisionError"
            /\ pc' = "error"
            /\ UNCHANGED <<bi, phase, tones>>
       ELSE /\ phase' = 0
            /\ tones' = <<>>
            /\ bi' = 1
            /\ pc' = "for_bit"
            /\ UNCHANGED error
    /\ UNCHANGED <<text, baudot_str, args, caller, afsk_signal, sink>>
    /\ UNCHANGED <<wrapVars, encLocals>>

\* one iteration of "for bit in baudot_str"; the entry of tones also keeps
\* the final phase generate_tone returned with the tone (history)
GenerateTone ==
    /\ pc = "for_bit"
    /\ bi <= Len(baudot_str)
    /\ LET frequency == IF baudot_str[bi] = MARK_CODE
                        THEN args.mark_freq ELSE args.space_freq
           r == generate_tone(frequency, args.baud_rate, args.sample_rate,
                              phase)
       IN  IF r.error # "none"
           THEN /\ error' = r.error
                /\ pc' = "error"
                /\ UNCHANGED <<bi, phase, tones>>
           ELSE /\ tones' = Append(tones,
                                   [frequency     |-> r.tone.frequency,
                                    num           |-> r.tone.num,
                                    initial_phase |-> r.tone.initial_phase,
                                    final_phase   |-> r.final_phase])
                /\ phase' = r.final_phase
                /\ bi' = bi + 1
                /\ UNCHANGED <<pc, error>>
    /\ UNCHANGED <<text, baudot_str, args, caller, afsk_signal, sink>>
    /\ UNCHANGED <<wrapVars, encLocals>>

\* the end of the for loop, np.concatenate(tones), which raises ValueError
\* for an empty list, and the return
Concatenate ==
    /\ pc = "for_bit"
    /\ bi > Len(baudot_str)
    /\ IF tones = <<>>
       THEN /\ error' = "ValueError"
            /\ pc' = "error"
            /\ UNCHANGED afsk_signal
       ELSE /\ afsk_signal' = [returned |-> TRUE,
                               samples  |-> samples_range(tones, 1, Len(tones))]
            /\ pc' = IF caller = "main" THEN "sink" ELSE "done"
            /\ UNCHANGED error
    /\ UNCHANGED <<text, baudot_str, args, caller, bi, phase, tones, sink>>
    /\ UNCHANGED <<wrapVars, encLocals>>

\* main, after baudot_to_afsk returned: write_to_wav or play_afsk_signal
Sink ==
    /\ pc = "sink"
    /\ sink' = IF args.write THEN "write_to_wav" ELSE "play_afsk_signal"
    /\ pc' = "done"
    /\ UNCHANGED <<text, baudot_str, args, caller, bi, phase, tones,
                   afsk_signal, error>>
    /\ UNCHANGED <<wrapVars, encLocals>>

\* the arguments given to main and to baudot_to_afsk
MarkFreqs == {DEFAULT_MARK_FREQ, 2125}

SampleRates == {-DEFAULT_SAMPLE_RATE, 0, DEFAULT_SAMPLE_RATE}

BaudRates == {-DEFAULT_BAUD_RATE, 0, 4545, DEFAULT_BAUD_RATE}

Configs ==
    [mark_freq   : MarkFreqs,
     space_freq  : {DEFAULT_SPACE_FREQ},
     sample_rate : SampleRates,
     baud_rate   : BaudRates,
     write       : BOOLEAN]

\* the texts given to main
AfskTexts == {<<>>, <<"R">>, <<"R", "Y">>, <<"4">>}

\* the bit strings given to baudot_to_afsk by a direct call
BitStrings == UNION {[1..n -> {MARK_CODE, SPACE_CODE}] : n \in 0..MaxBits}

InitAfsk ==
    /\ args \in Configs
    /\ \/ /\ caller = "main"
          /\ pc = "main"
          /\ text \in AfskTexts
          /\ baudot_str = <<>>
       \/ /\ caller = "call"
          /\ pc = "baudot_to_afsk"
          /\ text = <<>>
          /\ baudot_str \in BitStrings
    /\ existing_lines = <<>>
    /\ li = 1
    /\ processed_lines = <<>>
    /\ remaining_text = <<>>
    /\ result_lines = <<>>
    /\ breaks = <<>>
    /\ cur_breaks = <<>>
    /\ out = <<>>
    /\ split_msg = <<>>
    /\ ci = 1
    /\ mi = 1
    /\ current_mode = "letters"
    /\ baudot_arr = <<>>
    /\ tags = <<>>
    /\ bi = 1
    /\ phase = 0
    /\ tones = <<>>
    /\ afsk_signal = NoSignal
    /\ sink = "none"
    /\ error = "none"

NextAfsk ==
    \/ MainTextToBaudot
    \/ BaudotToAfskEnter
    \/ GenerateTone
    \/ Concatenate
    \/ Sink

SpecAfsk == InitAfsk /\ [][NextAfsk]_vars

----------------------------------------------------------------------------
(* Properties of baudot_to_afsk and main, checked under SpecAfsk *)

\* the frequency of the tone of the n-th bit
bit_frequency(n) ==
    IF baudot_str[n] = MARK_CODE THEN args.mark_freq ELSE args.space_freq

\* (p + 2 pi * frequency * duration) mod 2 pi, in 1 / abs(baud_rate) parts
\* of a turn
phase_after(p, frequency) ==
    IF args.baud_rate > 0
    THEN (p + frequency * BAUD_UNIT) % args.baud_rate
    ELSE (p - frequency * BAUD_UNIT) % (-args.baud_rate)

\* C12: the first segment starts at phase 0, every later segment starts at
\* exactly the final phase returned for the segment before it, and that
\* final phase is (start + 2 pi * frequency * duration) mod 2 pi, at least 0
\* and less than a turn; the phase
\* variable holds the last final phase between two segments.
C12_PhaseContinuity ==
    /\ \A n \in 1..Len(tones) :
           /\ tones[n].initial_phase =
                  IF n = 1 THEN 0 ELSE tones[n - 1].final_phase
           /\ tones[n].final_phase =
                  phase_after(tones[n].initial_phase, bit_frequency(n))
           /\ tones[n].final_phase \in 0..(abs(args.baud_rate) - 1)
    /\ pc = "for_bit" =>
           phase = IF tones = <<>> THEN 0 ELSE tones[Len(tones)].final_phase

\* a space tone goes on at the phase, not 0, where a mark tone ended
C12_Witness ==
    /\ Len(tones) >= 2
    /\ tones[1].frequency = args.mark_freq
    /\ tones[2].frequency = args.space_freq
    /\ tones[1].final_phase # 0
    /\ tones[2].initial_phase = tones[1].final_phase
    /\ tones[2].final_phase # tones[2].initial_phase

invalid_configuration == args.baud_rate <= 0 \/ args.sample_rate <= 0

\* C13: with a baud rate or a sample rate that is zero or negative no tone
\* segment is generated, no waveform is returned and no sink is invoked: the
\* call ends in an error.
C13_InvalidConfigFailsFast ==
    invalid_configuration =>
        /\ tones = <<>>
        /\ ~afsk_signal.returned
        /\ sink = "none"
        /\ pc \notin {"sink", "done"}

\* int(sample_rate * (1 / baud_rate))
samples_per_bit == int(args.sample_rate * BAUD_UNIT, args.baud_rate)

\* C14: one tone segment per bit, in bit order, at the mark frequency for a
\* 1 and the space frequency for a 0, each of N samples, N the integer part
\* of sample_rate * (1 / baud_rate), 970 for 44100 Hz at 45.45 baud; the
\* returned waveform has len(bits) * N samples.
C14_OneSegmentPerBit ==
    /\ \A n \in 1..Len(tones) :
           /\ tones[n].frequency = bit_frequency(n)
           /\ tones[n].num = samples_per_bit
           /\ (args.sample_rate > 0 /\ args.baud_rate > 0) =>
                  tones[n].num = (args.sample_rate * BAUD_UNIT) \div args.baud_rate
           /\ (args.sample_rate = 44100 /\ args.baud_rate = 4545) =>
                  tones[n].num = 970
    /\ pc = "for_bit" => Len(tones) = bi - 1
    /\ afsk_signal.returned =>
           /\ Len(tones) = Len(baudot_str)
           /\ afsk_signal.samples = Len(baudot_str) * samples_per_bit

\* main returned the waveform of 'RY' at 45.45 baud: 61 bits of 970 samples
C14_Witness ==
    /\ pc = "done"
    /\ caller = "main"
    /\ text = <<"R", "Y">>
    /\ args.sample_rate = 44100 /\ args.baud_rate = 4545
    /\ afsk_signal.returned
    /\ afsk_signal.samples = Len(baudot_str) * 970
    /\ \E n \in 1..Len(tones) : tones[n].frequency = args.space_freq
    /\ \E n \in 1..Len(tones) : tones[n].frequency = args.mark_freq

====
